---- MODULE Spec2Model ----
(***************************************************************************)
(* Model of the three Kuiper-belt analysis scripts of                      *)
(* examples/kuiper_belt:                                                   *)
(*   etno_analysis_planet_nine.py     (class ETNOAnalyzer)                 *)
(*   etno_comprehensive_analysis.py   (class ComprehensiveETNOAnalysis)    *)
(*   kozai_lidov_analysis.py          (class KozaiLidovAnalyzer)           *)
(*                                                                         *)
(* One run is one process executing one of the scripts on one CSV file.    *)
(* The file and the script are chosen in Init; the actions are the public  *)
(* methods of the analyzer object, called in any order by its caller.      *)
(* An uncaught Python exception ends the run: it is recorded in `error`    *)
(* and no further method is called.                                        *)
(* A second specification, FnSpec, has a caller apply the functions of     *)
(* KozaiLidovAnalyzer and ETNOAnalyzer.calculate_statistics itself, to     *)
(* records and lists of its own.                                           *)
(*                                                                         *)
(* Numbers.  Python floats are modelled as exact fixed-point integers:     *)
(*   a, q, ad, period            whole AU / years                          *)
(*   e, pert_strength            hundredths         (e = 75 is 0.75)       *)
(*   i, omega_node, omega_arg    whole degrees                             *)
(*   cos, sqrt(1-e^2), kozai_parameter, h_z_component,                     *)
(*   omega_circulation_indicator ten-thousandths    (scale 10000)          *)
(*   resonance_strength          1/30000            (so that /3 is exact)  *)
(*   kozai_evidence_score        1/100000                                  *)
(*   estimated_kozai_period      thousands of years                        *)
(*   mass_min, mass_max          tenths of an Earth mass                   *)
(*   overall_confidence, eccentricity_estimate     hundredths              *)
(* A mean is the exact rational sum/count, kept in lowest terms as         *)
(* [num, den]; comparisons with thresholds are made by cross-multiplying.  *)
(* The float mean of equal two-decimal values is not always the value      *)
(* itself: where a result depends on that (a standard deviation of equal   *)
(* eccentricities, a mean against the minimum and maximum) the binary64    *)
(* sum and division are recomputed on the significand.                     *)
(* CSV columns that are parsed but never read by any computation           *)
(* (Absolute_Magnitude, the precession rates, Resonance_Strength,          *)
(* Primary_Perturbation_Type, Classification) are not carried.             *)
(***************************************************************************)
EXTENDS Integers, Sequences, FiniteSets, TLC

\* Longest CSV file read in a run (data rows).
MaxRows == 3
\* Most method calls a caller makes on one analyzer object.
MaxCalls == 3

VARIABLES
    script,             \* which script this run executes
    csv_file,           \* the data rows of the CSV file, in file order
    calls,              \* number of method calls made so far
    last_op,            \* name of the last method called
    error,              \* "none", or the uncaught exception that ended the run
    \* ETNOAnalyzer
    all_objects, extreme_objects, high_a_objects, high_q_objects,
    etno_result,        \* value returned by the last ETNOAnalyzer method
    \* ComprehensiveETNOAnalysis
    comp_objects,
    comp_report,        \* what generate_comprehensive_report had computed
    \* KozaiLidovAnalyzer
    objects, kozai_candidates, statistics, perturber_params,
    kozai_result        \* value returned by the last KozaiLidovAnalyzer function

vars == <<script, csv_file, calls, last_op, error,
          all_objects, extreme_objects, high_a_objects, high_q_objects,
          etno_result, comp_objects, comp_report,
          objects, kozai_candidates, statistics, perturber_params,
          kozai_result>>

etno_vars == <<all_objects, extreme_objects, high_a_objects, high_q_objects,
               etno_result>>
comp_vars == <<comp_objects, comp_report>>
kozai_vars == <<objects, kozai_candidates, statistics, perturber_params,
                kozai_result>>

-----------------------------------------------------------------------------
(* The CSV file *)

\* One data row as csv.DictReader yields it.  `bad` names the column whose
\* text is not a number ("" when every numeric column parses).
Row(name, a, e, i, q, ad, period, node, arg, pert, flag, bad) ==
    [Object_Name |-> name, Semi_Major_Axis_AU |-> a, Eccentricity |-> e,
     Inclination_deg |-> i, Perihelion_AU |-> q, Aphelion_AU |-> ad,
     Period_Years |-> period, Ascending_Node_deg |-> node,
     Perihelion_Arg_deg |-> arg, Perturbation_Strength |-> pert,
     Distant_Object_Flag |-> flag, bad |-> bad]

\* The rows a file is made of.  They sit on and around the thresholds of
\* the filters: a = 250 (B), q = 30 (C), both passed (A, D), e > 1 (E), an
\* eccentric, inclined orbit inside a = 50 (F), and a row whose
\* Semi_Major_Axis_AU is not a number (X).  Some share a sort key:
\* A and C their a, A and D their q, C and D their e and inclination (and
\* so their Kozai evidence score).  D's argument of perihelion is near 180,
\* C's is 45; the perturbation strengths of B and D are 0.5 and 0.6.
RowA == Row("A", 320,  75, 25, 55, 585, 5724, 100,  20, 65, 1, "")
RowB == Row("B", 250,  70, 55, 40, 400, 3953, 200, 180, 50, 1, "")
RowC == Row("C", 320,  90, 35, 30, 608, 5724, 300,  45, 45, 1, "")
RowD == Row("D", 400,  90, 35, 55, 760, 8000,  50, 180, 60, 1, "")
RowE == Row("E", 100, 120, 40, 20, 220, 1000, 150, 225, 50, 0, "")
RowF == Row("F",  40,  70, 50, 12,  68,  253, 120, 300, 30, 0, "")
RowBad == Row("X", 260, 70, 50, 45, 475, 4192, 10, 10, 60, 1, "Semi_Major_Axis_AU")

Rows == {RowA, RowB, RowC, RowD, RowE, RowF, RowBad}

RECURSIVE SeqsUpTo(_, _)
SeqsUpTo(S, n) ==
    IF n = 0 THEN {<<>>}
    ELSE LET shorter == SeqsUpTo(S, n - 1)
         IN  shorter \cup {Append(s, x) : s \in {t \in shorter : Len(t) = n - 1}, x \in S}

Files == SeqsUpTo(Rows, MaxRows)

\* float(row[col]) raises ValueError when the text is not a number.
Parses(row) == row.bad = ""

\* Rows read before the first row on which a loader without try/except
\* raises: the objects it had appended when the exception propagated.
RECURSIVE ParsedPrefix(_)
ParsedPrefix(rows) ==
    IF rows = <<>> \/ ~Parses(Head(rows)) THEN <<>>
    ELSE <<Head(rows)>> \o ParsedPrefix(Tail(rows))

AllParse(rows) == \A k \in 1..Len(rows) : Parses(rows[k])

-----------------------------------------------------------------------------
(* Arithmetic helpers *)

Abs(x) == IF x < 0 THEN -x ELSE x
Max2(x, y) == IF x >= y THEN x ELSE y
Min2(x, y) == IF x <= y THEN x ELSE y

RECURSIVE GCD(_, _)
GCD(x, y) == IF y = 0 THEN x ELSE GCD(y, x % y)

\* The rational n/d (d > 0) in lowest terms.
Rat(n, d) ==
    LET g == GCD(Abs(n), d)
    IN  [num |-> n \div g, den |-> d \div g]

Zero == [num |-> 0, den |-> 1]

\* r > n/d, for d > 0
RatGT(r, n, d) == r.num * d > n * r.den
RatLT(r, n, d) == r.num * d < n * r.den

RECURSIVE SumSeq(_)
SumSeq(s) == IF s = <<>> THEN 0 ELSE Head(s) + SumSeq(Tail(s))

RECURSIVE MinSeq(_)
MinSeq(s) == IF Len(s) = 1 THEN s[1] ELSE Min2(Head(s), MinSeq(Tail(s)))

RECURSIVE MaxSeq(_)
MaxSeq(s) == IF Len(s) = 1 THEN s[1] ELSE Max2(Head(s), MaxSeq(Tail(s)))

Field(s, f) == [k \in 1..Len(s) |-> s[k][f]]

\* floor of the square root of n >= 0 (bisection on [lo, hi))
RECURSIVE Bisect(_, _, _)
Bisect(n, lo, hi) ==
    IF hi - lo <= 1 THEN lo
    ELSE LET mid == (lo + hi) \div 2
         IN  IF mid * mid <= n THEN Bisect(n, mid, hi) ELSE Bisect(n, lo, mid)

ISqrt(n) == Bisect(n, 0, 46341)

\* Python's sorted(..., reverse=True) / list.sort(reverse=True) on key f:
\* descending, and stable (equal keys keep their original order).
RECURSIVE InsertDesc(_, _, _)
InsertDesc(sorted, x, f) ==
    IF sorted = <<>> THEN <<x>>
    ELSE IF Head(sorted)[f] >= x[f]
         THEN <<Head(sorted)>> \o InsertDesc(Tail(sorted), x, f)
         ELSE <<x>> \o sorted

RECURSIVE SortDesc(_, _)
SortDesc(s, f) ==
    IF s = <<>> THEN <<>>
    ELSE InsertDesc(SortDesc(SubSeq(s, 1, Len(s) - 1), f), s[Len(s)], f)

\* sorted(values): ascending
RECURSIVE InsertAsc(_, _)
InsertAsc(sorted, x) ==
    IF sorted = <<>> THEN <<x>>
    ELSE IF Head(sorted) <= x
         THEN <<Head(sorted)>> \o InsertAsc(Tail(sorted), x)
         ELSE <<x>> \o sorted

RECURSIVE SortAsc(_)
SortAsc(s) ==
    IF s = <<>> THEN <<>>
    ELSE InsertAsc(SortAsc(SubSeq(s, 1, Len(s) - 1)), s[Len(s)])

-----------------------------------------------------------------------------
(* etno_analysis_planet_nine.py : ETNOAnalyzer *)

\* KBO(...) built from one parsed row
KBO(row) ==
    [name |-> row.Object_Name, a |-> row.Semi_Major_Axis_AU,
     e |-> row.Eccentricity, i |-> row.Inclination_deg,
     q |-> row.Perihelion_AU, ad |-> row.Aphelion_AU,
     period |-> row.Period_Years, omega_node |-> row.Ascending_Node_deg,
     omega_arg |-> row.Perihelion_Arg_deg,
     pert_strength |-> row.Perturbation_Strength,
     distant_flag |-> row.Distant_Object_Flag]

KBOs(rows) == [k \in 1..Len(rows) |-> KBO(rows[k])]

\* mutant: the semi-major-axis test written with >=
IsExtreme_NonStrict(obj) == obj.a >= 250 /\ obj.q > 30

\* obj.a > 250.0 and obj.q > 30.0
IsExtreme(obj) == obj.a > 250 /\ obj.q > 30
\* obj.a > 250.0
IsHighA(obj) == obj.a > 250
\* mutant: the high-q list filtered on the wrong attribute
IsHighQ_WrongField(obj) == obj.a > 30

\* obj.q > 30.0
IsHighQ(obj) == obj.q > 30

\* population standard deviation sqrt(sum((x - mean)^2) / N), as the
\* rational floor(sqrt(N*sum(x^2) - sum(x)^2)) / N
StdDev(values) ==
    LET N  == Len(values)
        S  == SumSeq(values)
        S2 == SumSeq([k \in 1..N |-> values[k] * values[k]])
    IN  Rat(ISqrt(N * S2 - S * S), N)

-----------------------------------------------------------------------------
(* The float mean of equal values *)

\* Python floats are IEEE binary64 numbers: sum(values) adds them one by
\* one and rounds each partial sum to 53 significant bits (round half to
\* even), and the division by len(values) rounds once more.  For N copies
\* of a value of two decimals the result is recomputed here bit for bit on
\* the significand, kept as three digits <<h, m, l>> of base 2^20, most
\* significant first, in units of the value's last place.

BigNorm(x) ==
    LET m == x[2] + (x[3] \div 1048576)
    IN  <<x[1] + (m \div 1048576), m % 1048576, x[3] % 1048576>>

BigAdd(x, y) == BigNorm(<<x[1] + y[1], x[2] + y[2], x[3] + y[3]>>)

\* a positive value in hundredths below 0.5 doubled until it is not: the
\* doubling leaves the significand as it is
RECURSIVE ToUnitInterval(_)
ToUnitInterval(v) == IF v >= 50 THEN v ELSE ToUnitInterval(2 * v)

\* the least k >= from with v / 100 < 2^k
RECURSIVE BinaryExponent(_, _)
BinaryExponent(v, from) ==
    IF v < 100 * (2 ^ from) THEN from ELSE BinaryExponent(v, from + 1)

\* float(text) of the decimal v/100 (0 < v/100 < 8192): its 53-bit
\* significand round(v * 2^(53 - k) / 100), where 2^(k-1) <= v/100 < 2^k
Significand(v) ==
    LET u == ToUnitInterval(v)
        m == 2 ^ (13 - BinaryExponent(u, 0))
        d1 == (u * m) \div 100
        r1 == (u * m) % 100
        d2 == (r1 * 1048576) \div 100
        r2 == (r1 * 1048576) % 100
        d3 == (r2 * 1048576) \div 100
        r3 == (r2 * 1048576) % 100
        up == 2 * r3 > 100 \/ (2 * r3 = 100 /\ d3 % 2 = 1)
    IN  BigAdd(<<d1, d2, d3>>, <<0, 0, IF up THEN 1 ELSE 0>>)

\* the number of bits by which a sum exceeds 53 bits (h is its top digit)
RECURSIVE ExcessBits(_)
ExcessBits(h) == IF h < 8192 THEN 0 ELSE 1 + ExcessBits(h \div 2)

\* a partial sum rounded to 53 significant bits, half to even
RoundSum(x) ==
    LET b == ExcessBits(x[1])
        p == 2 ^ b
        low == x[3] % p
        up == 2 * low > p \/ (2 * low = p /\ (x[3] \div p) % 2 = 1)
    IN  IF b = 0 THEN x
        ELSE BigAdd(<<x[1], x[2], x[3] - low>>, <<0, 0, IF up THEN p ELSE 0>>)

\* sum([v] * n) for v of significand sig
RECURSIVE FloatSum(_, _)
FloatSum(sig, n) ==
    IF n = 0 THEN <<0, 0, 0>>
    ELSE RoundSum(BigAdd(FloatSum(sig, n - 1), sig))

\* x / n, rounded half to even
FloatDiv(x, n) ==
    LET q1 == x[1] \div n
        r1 == x[1] % n
        q2 == (r1 * 1048576 + x[2]) \div n
        r2 == (r1 * 1048576 + x[2]) % n
        q3 == (r2 * 1048576 + x[3]) \div n
        r3 == (r2 * 1048576 + x[3]) % n
        up == 2 * r3 > n \/ (2 * r3 = n /\ q3 % 2 = 1)
    IN  BigAdd(<<q1, q2, q3>>, <<0, 0, IF up THEN 1 ELSE 0>>)

BigLess(x, y) ==
    \/ x[1] < y[1]
    \/ x[1] = y[1] /\ x[2] < y[2]
    \/ x[1] = y[1] /\ x[2] = y[2] /\ x[3] < y[3]

\* where sum([x] * n) / n falls for x = v/100 (v > 0): -1 below x, 0 on x,
\* 1 above x.  Whole numbers add and divide without rounding.
MeanDirection(v, n) ==
    IF v % 100 = 0 THEN 0
    ELSE LET sig == Significand(v)
             mean == FloatDiv(FloatSum(sig, n), n)
         IN  IF BigLess(mean, sig) THEN -1
             ELSE IF BigLess(sig, mean) THEN 1
             ELSE 0

\* sum([x] * n) / n == x for x = v/100
MeanOfEqualIsExact(v, n) == MeanDirection(v, n) = 0

AllEqual(values) == \A k \in 1..Len(values) : values[k] = values[1]

\* |v - mean| when the float mean of copies of v is not v: one unit in the
\* last place of v, a positive number far below the resolution of the
\* fixed-point scale
OneUlp == [num |-> 1, den |-> 1073741824]

\* math.sqrt(sum((v - mean)**2 for v in values) / len(values)) for values
\* of two decimals (the eccentricities; those that reach the statistics
\* are at most 1): the deviations of equal values are 0 only when their
\* float mean is the value itself
StdDevOfDecimals(values) ==
    IF AllEqual(values) /\ ~MeanOfEqualIsExact(values[1], Len(values))
    THEN OneUlp
    ELSE StdDev(values)

\* sum(values) / len(values) for values of two decimals, in hundredths: the
\* exact mean, but for equal values whose float mean falls beside them,
\* when it is a number next to the value on that side, nearer to it than
\* the fixed-point scale resolves
MeanOfDecimals(values) ==
    LET N == Len(values)
        d == IF AllEqual(values) THEN MeanDirection(values[1], N) ELSE 0
    IN  IF d = 0 THEN Rat(SumSeq(values), N)
        ELSE Rat(values[1] * 1000 + d, 1000)

NoResult == [call |-> "none", arg |-> <<>>, ret |-> <<>>]

\* The empty dict {} : a mapping with no key.
EmptyDict == <<>>

\* the dict calculate_statistics returns for a non-empty list
StatisticsOf(objs) ==
    LET a_values == Field(objs, "a")
        q_values == Field(objs, "q")
        ad_values == Field(objs, "ad")
        e_values == Field(objs, "e")
        i_values == Field(objs, "i")
        period_values == Field(objs, "period")
        N == Len(objs)
    IN  [count |-> N,
         a_mean |-> Rat(SumSeq(a_values), N),
         a_min |-> MinSeq(a_values),
         a_max |-> MaxSeq(a_values),
         a_median |-> SortAsc(a_values)[(N \div 2) + 1],
         q_mean |-> Rat(SumSeq(q_values), N),
         q_min |-> MinSeq(q_values),
         q_max |-> MaxSeq(q_values),
         ad_mean |-> Rat(SumSeq(ad_values), N),
         ad_max |-> MaxSeq(ad_values),
         e_mean |-> MeanOfDecimals(e_values),
         e_min |-> MinSeq(e_values),
         e_max |-> MaxSeq(e_values),
         i_mean |-> Rat(SumSeq(i_values), N),
         i_max |-> MaxSeq(i_values),
         period_mean |-> Rat(SumSeq(period_values), N),
         period_max |-> MaxSeq(period_values)]

\* mutant: a zeroed dict, not an empty one, for an empty list
calculate_statistics_Zeroed(objs) ==
    IF objs = <<>> THEN [count |-> 0, a_mean |-> Zero, q_mean |-> Zero]
    ELSE StatisticsOf(objs)

\* calculate_statistics: `if not objects: return {}`
calculate_statistics(objs) ==
    IF objs = <<>> THEN EmptyDict ELSE StatisticsOf(objs)

\* calculate_statistics on records whose lengths a, q and ad are given in
\* hundredths of an AU: the same dict, the three means of lengths being
\* float means of two-decimal values
calculate_statistics_of_decimals(objs) ==
    IF objs = <<>> THEN EmptyDict
    ELSE [StatisticsOf(objs) EXCEPT
              !.a_mean = MeanOfDecimals(Field(objs, "a")),
              !.q_mean = MeanOfDecimals(Field(objs, "q")),
              !.ad_mean = MeanOfDecimals(Field(objs, "ad"))]

analyze_orbital_anomalies(objs) ==
    IF objs = <<>> THEN EmptyDict
    ELSE
    LET HighE(obj) == obj.e > 80
        HighI(obj) == obj.i > 40
        Aligned(obj) == obj.omega_arg < 45 \/ obj.omega_arg > 315
    IN  [omega_clustering_std |-> StdDev(Field(objs, "omega_arg")),
         node_clustering_std |-> StdDev(Field(objs, "omega_node")),
         high_eccentricity_count |-> Len(SelectSeq(objs, HighE)),
         high_inclination_count |-> Len(SelectSeq(objs, HighI)),
         perihelion_aligned_count |-> Len(SelectSeq(objs, Aligned)),
         avg_perturbation_strength |->
             Rat(SumSeq(Field(objs, "pert_strength")), Len(objs)),
         distant_object_flag_count |-> SumSeq(Field(objs, "distant_flag"))]

analyze_planet_nine_signature(extreme) ==
    IF extreme = <<>> THEN EmptyDict
    ELSE
    LET Near0(obj) == obj.omega_arg < 45 \/ obj.omega_arg > 315
        Near180(obj) == 135 < obj.omega_arg /\ obj.omega_arg < 225
        HighE(obj) == obj.e > 80
        N == Len(extreme)
    IN  [total_extreme_objects |-> N,
         objects |-> Field(extreme, "name"),
         kozai_cluster_0 |-> Len(SelectSeq(extreme, Near0)),
         kozai_cluster_180 |-> Len(SelectSeq(extreme, Near180)),
         avg_perturbation_strength |->
             Rat(SumSeq(Field(extreme, "pert_strength")), N),
         high_eccentricity_fraction |-> Rat(Len(SelectSeq(extreme, HighE)), N)]

\* A method of the ETNOAnalyzer is called.
ETNO_Call(op) ==
    /\ script = "etno"
    /\ error = "none"
    /\ calls < MaxCalls
    /\ calls' = calls + 1
    /\ last_op' = op
    /\ UNCHANGED <<script, csv_file, comp_vars, kozai_vars>>

\* load_data: every row is parsed and appended; there is no try/except, so
\* the first unparseable number raises ValueError out of the method.
ETNO_load_data ==
    /\ ETNO_Call("load_data")
    /\ all_objects' = all_objects \o KBOs(ParsedPrefix(csv_file))
    /\ error' = IF AllParse(csv_file) THEN "none" ELSE "ValueError"
    /\ UNCHANGED <<extreme_objects, high_a_objects, high_q_objects, etno_result>>

\* mutant: the three lists extended, not rebuilt, by each call
ETNO_filter_extreme_objects_Accumulating ==
    /\ ETNO_Call("filter_extreme_objects")
    /\ extreme_objects' = extreme_objects \o SelectSeq(all_objects, IsExtreme)
    /\ high_a_objects' = high_a_objects \o SelectSeq(all_objects, IsHighA)
    /\ high_q_objects' = high_q_objects \o SelectSeq(all_objects, IsHighQ)
    /\ UNCHANGED <<all_objects, etno_result, error>>

\* filter_extreme_objects: the three lists are rebuilt from all_objects
ETNO_filter_extreme_objects ==
    /\ ETNO_Call("filter_extreme_objects")
    /\ extreme_objects' = SelectSeq(all_objects, IsExtreme)
    /\ high_a_objects' = SelectSeq(all_objects, IsHighA)
    /\ high_q_objects' = SelectSeq(all_objects, IsHighQ)
    /\ UNCHANGED <<all_objects, etno_result, error>>

\* The lists a caller passes to calculate_statistics and
\* analyze_orbital_anomalies: the extreme objects (as generate_report and
\* export_json do), or an empty list.
ETNO_Lists == {extreme_objects, <<>>}

ETNO_calculate_statistics ==
    /\ ETNO_Call("calculate_statistics")
    /\ \E objs \in ETNO_Lists :
          etno_result' = [call |-> "calculate_statistics", arg |-> objs,
                          ret |-> calculate_statistics(objs)]
    /\ UNCHANGED <<all_objects, extreme_objects, high_a_objects,
                   high_q_objects, error>>

ETNO_analyze_orbital_anomalies ==
    /\ ETNO_Call("analyze_orbital_anomalies")
    /\ \E objs \in ETNO_Lists :
          etno_result' = [call |-> "analyze_orbital_anomalies", arg |-> objs,
                          ret |-> analyze_orbital_anomalies(objs)]
    /\ UNCHANGED <<all_objects, extreme_objects, high_a_objects,
                   high_q_objects, error>>

ETNO_analyze_planet_nine_signature ==
    /\ ETNO_Call("analyze_planet_nine_signature")
    /\ etno_result' = [call |-> "analyze_planet_nine_signature", arg |-> <<>>,
                       ret |-> analyze_planet_nine_signature(extreme_objects)]
    /\ UNCHANGED <<all_objects, extreme_objects, high_a_objects,
                   high_q_objects, error>>

\* The listing of section 1: sorted(self.extreme_objects, key=a, reverse=True)
\* builds a new list.
ReportListing(extreme) == SortDesc(extreme, "a")

\* mutant: the listing sorted in place (self.extreme_objects.sort(...))
ExtremeSortedInPlace(extreme) == SortDesc(extreme, "a")

\* extreme_objects after generate_report has run
ExtremeAfterReport(extreme) == extreme

\* generate_report: what the report is assembled from.  Sections 2 to 5 are
\* produced only when extreme_objects is not empty.
ETNO_generate_report ==
    /\ ETNO_Call("generate_report")
    /\ etno_result' =
          [call |-> "generate_report", arg |-> <<>>,
           ret |-> [listing |-> ReportListing(extreme_objects),
                    high_a_count |-> Len(high_a_objects),
                    high_q_count |-> Len(high_q_objects),
                    stats |-> calculate_statistics(extreme_objects),
                    anomalies |-> analyze_orbital_anomalies(extreme_objects),
                    planet_nine |-> analyze_planet_nine_signature(extreme_objects)]]
    /\ extreme_objects' = ExtremeAfterReport(extreme_objects)
    /\ UNCHANGED <<all_objects, high_a_objects, high_q_objects, error>>

\* export_json: returns at once when extreme_objects is empty.
ETNO_export_json ==
    /\ ETNO_Call("export_json")
    /\ etno_result' =
          [call |-> "export_json", arg |-> <<>>,
           ret |-> IF extreme_objects = <<>> THEN EmptyDict
                   ELSE [extreme_objects |-> extreme_objects,
                         statistics |-> calculate_statistics(extreme_objects),
                         planet_nine_signature |->
                             analyze_planet_nine_signature(extreme_objects)]]
    /\ UNCHANGED <<all_objects, extreme_objects, high_a_objects,
                   high_q_objects, error>>

ETNO_Next ==
    \/ ETNO_load_data
    \/ ETNO_filter_extreme_objects
    \/ ETNO_calculate_statistics
    \/ ETNO_analyze_orbital_anomalies
    \/ ETNO_analyze_planet_nine_signature
    \/ ETNO_generate_report
    \/ ETNO_export_json

-----------------------------------------------------------------------------
(* etno_comprehensive_analysis.py : ComprehensiveETNOAnalysis *)

\* the dict built from one parsed row
CompObj(row) ==
    [name |-> row.Object_Name, a |-> row.Semi_Major_Axis_AU,
     e |-> row.Eccentricity, i |-> row.Inclination_deg,
     q |-> row.Perihelion_AU, ad |-> row.Aphelion_AU,
     period |-> row.Period_Years, node |-> row.Ascending_Node_deg,
     arg |-> row.Perihelion_Arg_deg,
     pert_strength |-> row.Perturbation_Strength,
     distant_flag |-> row.Distant_Object_Flag]

CompObjs(rows) == [k \in 1..Len(rows) |-> CompObj(rows[k])]

\* obj['a'] > 250.0 and obj['q'] > 30.0   (section 1)
CompIsExtremeCore(obj) == obj.a > 250 /\ obj.q > 30
\* obj['a'] > 250.0                        (section 2)
CompIsHighA(obj) == obj.a > 250
\* obj['q'] > 30.0                         (section 3)
CompIsHighQ(obj) == obj.q > 30

\* Section 2 statistics: every mean divides by len(high_a) with no guard.
CompHighAStats(high_a) ==
    LET a_values == Field(high_a, "a")
        e_values == Field(high_a, "e")
        q_values == Field(high_a, "q")
        N == Len(high_a)
    IN  [count |-> N,
         a_mean |-> Rat(SumSeq(a_values), N),
         a_min |-> MinSeq(a_values), a_max |-> MaxSeq(a_values),
         e_mean |-> MeanOfDecimals(e_values),
         e_min |-> MinSeq(e_values), e_max |-> MaxSeq(e_values),
         q_mean |-> Rat(SumSeq(q_values), N)]

\* Section 3 statistics: every mean divides by len(high_q) with no guard.
CompHighQStats(high_q) ==
    LET q_vals == Field(high_q, "q")
        a_vals == Field(high_q, "a")
        N == Len(high_q)
    IN  [count |-> N,
         q_mean |-> Rat(SumSeq(q_vals), N),
         q_min |-> MinSeq(q_vals), q_max |-> MaxSeq(q_vals),
         a_mean |-> Rat(SumSeq(a_vals), N),
         a_min |-> MinSeq(a_vals), a_max |-> MaxSeq(a_vals)]

\* the thresholds of the sweeps: for threshold_a in [250, 200, 150]
SweepA == {250, 200, 150}
\* for e_threshold in [0.8, 0.7, 0.6]
SweepE == {80, 70, 60}

\* Section 4, one threshold (skipped, by `continue`, when no object passes)
CompOmegaSweep(objs, threshold_a) ==
    LET Above(obj) == obj.a > threshold_a
        threshold_objects == SelectSeq(objs, Above)
        C0(obj) == obj.arg < 45 \/ obj.arg > 315
        C180(obj) == 135 < obj.arg /\ obj.arg < 225
        Sc(obj) == ~(obj.arg < 45 \/ obj.arg > 315)
                   /\ ~(135 < obj.arg /\ obj.arg < 225)
    IN  IF threshold_objects = <<>> THEN EmptyDict
        ELSE [n |-> Len(threshold_objects),
              cluster_0 |-> SelectSeq(threshold_objects, C0),
              cluster_180 |-> SelectSeq(threshold_objects, C180),
              scattered |-> SelectSeq(threshold_objects, Sc)]

\* mutant: the medium group without its two end points
CompPertSweep_OpenMedium(objs, threshold_a) ==
    LET Above(obj) == obj.a > threshold_a
        threshold_objects == SelectSeq(objs, Above)
        High(obj) == obj.pert_strength > 60
        Med(obj) == 50 < obj.pert_strength /\ obj.pert_strength < 60
        Low(obj) == obj.pert_strength < 50
    IN  IF threshold_objects = <<>> THEN EmptyDict
        ELSE [n |-> Len(threshold_objects),
              avg_pert |-> Rat(SumSeq(Field(threshold_objects, "pert_strength")),
                               Len(threshold_objects)),
              high_pert |-> SelectSeq(threshold_objects, High),
              med_pert |-> SelectSeq(threshold_objects, Med),
              low_pert |-> SelectSeq(threshold_objects, Low)]

\* Section 5, one threshold
CompPertSweep(objs, threshold_a) ==
    LET Above(obj) == obj.a > threshold_a
        threshold_objects == SelectSeq(objs, Above)
        High(obj) == obj.pert_strength > 60
        Med(obj) == 50 <= obj.pert_strength /\ obj.pert_strength <= 60
        Low(obj) == obj.pert_strength < 50
    IN  IF threshold_objects = <<>> THEN EmptyDict
        ELSE [n |-> Len(threshold_objects),
              avg_pert |-> Rat(SumSeq(Field(threshold_objects, "pert_strength")),
                               Len(threshold_objects)),
              high_pert |-> SelectSeq(threshold_objects, High),
              med_pert |-> SelectSeq(threshold_objects, Med),
              low_pert |-> SelectSeq(threshold_objects, Low)]

\* Section 6, one threshold
CompEccSweep(objs, e_threshold) ==
    LET Above(obj) == obj.e > e_threshold
        high_e_objs == SelectSeq(objs, Above)
        N == Len(high_e_objs)
    IN  IF high_e_objs = <<>> THEN EmptyDict
        ELSE [listing |-> SortDesc(high_e_objs, "e"),
              avg_e |-> Rat(SumSeq(Field(high_e_objs, "e")), N),
              avg_a |-> Rat(SumSeq(Field(high_e_objs, "a")), N),
              avg_pert |-> Rat(SumSeq(Field(high_e_objs, "pert_strength")), N)]

\* mutant: the extreme-core count of the evidence dict taken with a >= 250
CompEvidence_NonStrictCore(objs) ==
    LET Core(obj) == obj.a >= 250 /\ obj.q > 30
        HA(obj) == obj.a > 250
        HQ(obj) == obj.q > 30
        HE(obj) == obj.e > 80
        high_a == SelectSeq(objs, HA)
    IN  [extreme_core |-> Len(SelectSeq(objs, Core)),
         high_a |-> Len(high_a),
         high_q |-> Len(SelectSeq(objs, HQ)),
         high_e |-> Len(SelectSeq(objs, HE)),
         avg_pert_high_a |->
             IF Len(high_a) > 0
             THEN Rat(SumSeq(Field(high_a, "pert_strength")), Len(high_a))
             ELSE Zero,
         distant_flag_sum |-> SumSeq(Field(high_a, "distant_flag"))]

\* Section 7: the evidence dict (integer literals 250 and 30 here)
CompEvidence(objs) ==
    LET Core(obj) == obj.a > 250 /\ obj.q > 30
        HA(obj) == obj.a > 250
        HQ(obj) == obj.q > 30
        HE(obj) == obj.e > 80
        high_a == SelectSeq(objs, HA)
    IN  [extreme_core |-> Len(SelectSeq(objs, Core)),
         high_a |-> Len(high_a),
         high_q |-> Len(SelectSeq(objs, HQ)),
         high_e |-> Len(SelectSeq(objs, HE)),
         avg_pert_high_a |->
             IF Len(high_a) > 0
             THEN Rat(SumSeq(Field(high_a, "pert_strength")), Len(high_a))
             ELSE Zero,
         distant_flag_sum |-> SumSeq(Field(high_a, "distant_flag"))]

NoReport ==
    [returned |-> FALSE, extreme_core |-> <<>>, core_listing |-> <<>>,
     high_a |-> <<>>, high_q |-> <<>>,
     high_a_stats |-> EmptyDict, high_q_stats |-> EmptyDict,
     omega_sweep |-> EmptyDict, pert_sweep |-> EmptyDict,
     ecc_sweep |-> EmptyDict, evidence |-> EmptyDict]

\* The exception generate_comprehensive_report raises on these objects:
\* sum(a_values)/len(a_values) (section 2) and sum(q_vals)/len(q_vals)
\* (section 3) divide by the length of a list that may be empty.
CompReportError(objs) ==
    IF SelectSeq(objs, CompIsHighA) = <<>> THEN "ZeroDivisionError"
    ELSE IF SelectSeq(objs, CompIsHighQ) = <<>> THEN "ZeroDivisionError"
    ELSE "none"

generate_comprehensive_report(objs) ==
    LET extreme_core == SelectSeq(objs, CompIsExtremeCore)
        high_a == SortDesc(SelectSeq(objs, CompIsHighA), "a")
        high_q == SortDesc(SelectSeq(objs, CompIsHighQ), "q")
    IN  IF CompReportError(objs) # "none" THEN NoReport
        ELSE [returned |-> TRUE,
              extreme_core |-> extreme_core,
              core_listing |-> SortDesc(extreme_core, "a"),
              high_a |-> high_a,
              high_q |-> high_q,
              high_a_stats |-> CompHighAStats(high_a),
              high_q_stats |-> CompHighQStats(high_q),
              omega_sweep |-> [t \in SweepA |-> CompOmegaSweep(objs, t)],
              pert_sweep |-> [t \in SweepA |-> CompPertSweep(objs, t)],
              ecc_sweep |-> [t \in SweepE |-> CompEccSweep(objs, t)],
              evidence |-> CompEvidence(objs)]

Comp_Call(op) ==
    /\ script = "comprehensive"
    /\ error = "none"
    /\ calls < MaxCalls
    /\ calls' = calls + 1
    /\ last_op' = op
    /\ UNCHANGED <<script, csv_file, etno_vars, kozai_vars>>

\* load_data as the body of both the constructor and a later call: no
\* try/except, so the first unparseable number raises ValueError.
Comp_load(op) ==
    /\ Comp_Call(op)
    /\ comp_objects' = comp_objects \o CompObjs(ParsedPrefix(csv_file))
    /\ error' = IF AllParse(csv_file) THEN "none" ELSE "ValueError"
    /\ UNCHANGED comp_report

\* __init__: self.objects = [] and then self.load_data()
Comp_init ==
    /\ last_op = "none"
    /\ Comp_load("__init__")

Comp_load_data ==
    /\ last_op # "none"
    /\ Comp_load("load_data")

Comp_generate_comprehensive_report ==
    /\ last_op # "none"
    /\ Comp_Call("generate_comprehensive_report")
    /\ comp_report' = generate_comprehensive_report(comp_objects)
    /\ error' = CompReportError(comp_objects)
    /\ UNCHANGED comp_objects

Comp_Next ==
    \/ Comp_init
    \/ Comp_load_data
    \/ Comp_generate_comprehensive_report

-----------------------------------------------------------------------------
(* kozai_lidov_analysis.py : KozaiLidovAnalyzer *)

\* the dict built from one parsed row
KozaiObj(row) ==
    [name |-> row.Object_Name, a |-> row.Semi_Major_Axis_AU,
     e |-> row.Eccentricity, i |-> row.Inclination_deg,
     q |-> row.Perihelion_AU, ad |-> row.Aphelion_AU,
     omega |-> row.Ascending_Node_deg, w |-> row.Perihelion_Arg_deg]

KozaiObjs(rows) == [k \in 1..Len(rows) |-> KozaiObj(rows[k])]

\* KozaiStatistics() : every field at its dataclass default
KozaiStatistics ==
    [count |-> 0, avg_a |-> Zero, avg_e |-> Zero, avg_i |-> Zero,
     avg_kozai_param |-> Zero, strong_kozai_count |-> 0,
     moderate_kozai_count |-> 0,
     e_min |-> 0, e_max |-> 0, e_mean |-> Zero, e_std_dev |-> Zero,
     i_min |-> 0, i_max |-> 0, i_mean |-> Zero, i_std_dev |-> Zero]

\* PerturberParameters() : every field at its dataclass default
\* (eccentricity_estimate: float = 0.3)
PerturberParameters ==
    [distance_min |-> Zero, distance_max |-> Zero,
     mass_min |-> 0, mass_max |-> 0,
     inclination_estimate |-> 0, eccentricity_estimate |-> 30,
     overall_confidence |-> 0, candidates |-> <<>>]

\* 10000 * cos(d degrees) for d = 0, 5, ..., 90, rounded
CosTable ==
    [d \in {0, 5, 10, 15, 20, 25, 30, 35, 40, 45, 50, 55, 60, 65, 70, 75,
            80, 85, 90} |->
        CASE d = 0 -> 10000 [] d = 5 -> 9962 [] d = 10 -> 9848
          [] d = 15 -> 9659 [] d = 20 -> 9397 [] d = 25 -> 9063
          [] d = 30 -> 8660 [] d = 35 -> 8192 [] d = 40 -> 7660
          [] d = 45 -> 7071 [] d = 50 -> 6428 [] d = 55 -> 5736
          [] d = 60 -> 5000 [] d = 65 -> 4226 [] d = 70 -> 3420
          [] d = 75 -> 2588 [] d = 80 -> 1736 [] d = 85 -> 872
          [] d = 90 -> 0]

\* math.cos(math.radians(deg)), scale 10000, for deg in 0..180
Cos(deg) == IF deg <= 90 THEN CosTable[deg] ELSE -CosTable[180 - deg]

\* math.sqrt(1.0 - e**2) raises ValueError ("math domain error") when the
\* argument is negative, that is when e > 1.
SqrtDomainError(obj) == 10000 - obj.e * obj.e < 0

\* math.sqrt(1.0 - obj['e']**2), scale 10000
SqrtTerm(obj) == ISqrt((10000 - obj.e * obj.e) * 10000)

\* the product x * y of two numbers of scale 10000, rounded toward zero
Times(x, y) ==
    LET mag == (Abs(x) * Abs(y)) \div 10000
    IN  IF (x < 0) # (y < 0) THEN -mag ELSE mag

\* mutant: h_z returned with its sign
calculate_kozai_parameter_Signed(obj) ==
    Times(SqrtTerm(obj), Cos(obj.i))

\* h_z = math.sqrt(1.0 - obj['e']**2) * math.cos(i_rad); return abs(h_z)
calculate_kozai_parameter(obj) ==
    LET h_z == Times(SqrtTerm(obj), Cos(obj.i))
    IN  Abs(h_z)

\* return math.sqrt(1.0 - obj['e']**2) * math.cos(i_rad)
calculate_angular_momentum_z(obj) ==
    Times(SqrtTerm(obj), Cos(obj.i))

\* sqrt(a**3) * 1000 / max(kozai_param, 0.1), in thousands of years
estimate_kozai_period(obj) ==
    LET orbital_period_years == ISqrt(obj.a * obj.a * obj.a)
        coupling_factor == Max2(calculate_kozai_parameter(obj), 1000)
    IN  (orbital_period_years * 10000) \div coupling_factor

classify_omega_circulation(obj) ==
    LET i_factor == Abs(Abs(Cos(obj.i)) - 5000)
        e_factor == Max2(obj.e * 100 - 6500, 0)
    IN  Max2(0, Min2(10000, 10000 - (i_factor + e_factor)))

\* mutant: the result clamped below at 0
calculate_resonance_strength_ClampedBelow(obj) ==
    LET e_factor == (obj.e - 50) * 200
        i_factor == Max2(0, 10000 - 2 * Abs(Abs(Cos(obj.i)) - 5000))
        a_factor == Min2(obj.ad * 20, 10000)
    IN  Max2(0, Min2(30000, e_factor + i_factor + a_factor))

\* min(1.0, (e_factor + i_factor + a_factor) / 3.0), in units of 1/30000
calculate_resonance_strength(obj) ==
    LET e_factor == (obj.e - 50) * 200
        i_factor == Max2(0, 10000 - 2 * Abs(Abs(Cos(obj.i)) - 5000))
        a_factor == Min2(obj.ad * 20, 10000)
    IN  Min2(30000, e_factor + i_factor + a_factor)

\* mutant: the weights 0.4 and 0.3 of the first two components exchanged
calculate_kozai_evidence_Swapped(kozai_param, omega_circulation, resonance_strength) ==
    3 * kozai_param + 4 * (10000 - omega_circulation) + resonance_strength

\* kozai_param*0.4 + (1 - omega_circulation)*0.3 + resonance_strength*0.3,
\* in units of 1/100000
calculate_kozai_evidence(kozai_param, omega_circulation, resonance_strength) ==
    4 * kozai_param + 3 * (10000 - omega_circulation) + resonance_strength

\* mutant: the filter without its bound on the semi-major axis
IsKozaiCandidate_AnyDistance(obj) == obj.e > 50 /\ obj.i > 30

\* obj['e'] > 0.5 and obj['i'] > 30.0 and obj['a'] > 50.0
IsKozaiCandidate(obj) == obj.e > 50 /\ obj.i > 30 /\ obj.a > 50

\* the KozaiCandidate the loop body of analyze builds for obj
KozaiCandidate(obj) ==
    LET kozai_param == calculate_kozai_parameter(obj)
        omega_circulation == classify_omega_circulation(obj)
        resonance_strength == calculate_resonance_strength(obj)
    IN  [name |-> obj.name, a |-> obj.a, e |-> obj.e, i |-> obj.i,
         q |-> obj.q, ad |-> obj.ad, omega |-> obj.omega, w |-> obj.w,
         kozai_parameter |-> kozai_param,
         h_z_component |-> calculate_angular_momentum_z(obj),
         apsidal_precession |-> 0, nodal_precession |-> 0,
         omega_circulation_indicator |-> omega_circulation,
         estimated_kozai_period |-> estimate_kozai_period(obj),
         resonance_strength |-> resonance_strength,
         kozai_evidence_score |->
             calculate_kozai_evidence(kozai_param, omega_circulation,
                                      resonance_strength)]

\* mutant: the strong threshold tested with >=
StrongCount_NonStrict(cands) ==
    LET Strong(c) == c.kozai_evidence_score >= 70000
    IN  Len(SelectSeq(cands, Strong))

\* sum(1 for c in self.kozai_candidates if c.kozai_evidence_score > 0.7)
StrongCount(cands) ==
    LET Strong(c) == c.kozai_evidence_score > 70000
    IN  Len(SelectSeq(cands, Strong))

\* mutant: the moderate threshold above the strong one
ModerateCount_AboveStrong(cands) ==
    LET Moderate(c) == c.kozai_evidence_score > 80000
    IN  Len(SelectSeq(cands, Moderate))

\* sum(1 for c in self.kozai_candidates if c.kozai_evidence_score > 0.5)
ModerateCount(cands) ==
    LET Moderate(c) == c.kozai_evidence_score > 50000
    IN  Len(SelectSeq(cands, Moderate))

\* _calculate_statistics: returns at once, leaving self.statistics as it
\* was, when there is no candidate.
_calculate_statistics(stats, cands) ==
    IF cands = <<>> THEN stats
    ELSE
    LET count == Len(cands)
        e_values == SortAsc(Field(cands, "e"))
        i_values == SortAsc(Field(cands, "i"))
    IN  [count |-> count,
         avg_a |-> Rat(SumSeq(Field(cands, "a")), count),
         avg_e |-> MeanOfDecimals(Field(cands, "e")),
         avg_i |-> Rat(SumSeq(Field(cands, "i")), count),
         avg_kozai_param |-> Rat(SumSeq(Field(cands, "kozai_parameter")), count),
         strong_kozai_count |-> StrongCount(cands),
         moderate_kozai_count |-> ModerateCount(cands),
         e_min |-> MinSeq(e_values), e_max |-> MaxSeq(e_values),
         e_mean |-> MeanOfDecimals(e_values),
         e_std_dev |-> StdDevOfDecimals(e_values),
         i_min |-> MinSeq(i_values), i_max |-> MaxSeq(i_values),
         i_mean |-> Rat(SumSeq(i_values), count),
         i_std_dev |-> StdDev(i_values)]

\* mutant: the distance range taken as 4.5x to 5.0x the mean semi-major axis
DistanceRange_Narrow(avg_a) ==
    <<Rat(avg_a.num * 9, avg_a.den * 2), Rat(avg_a.num * 5, avg_a.den)>>

\* distance_min = avg_a * 4.5 ; distance_max = avg_a * 5.5
DistanceRange(avg_a) ==
    <<Rat(avg_a.num * 9, avg_a.den * 2), Rat(avg_a.num * 11, avg_a.den * 2)>>

\* mutant: the mass tiers tested with >=
MassRange_NonStrict(avg_kozai) ==
    IF ~RatLT(avg_kozai, 6000, 1) THEN <<60, 100>>
    ELSE IF ~RatLT(avg_kozai, 4000, 1) THEN <<40, 70>>
    ELSE <<15, 40>>

\* <<mass_min, mass_max>> from the average Kozai parameter
MassRange(avg_kozai) ==
    IF RatGT(avg_kozai, 6000, 1) THEN <<60, 100>>
    ELSE IF RatGT(avg_kozai, 4000, 1) THEN <<40, 70>>
    ELSE <<15, 40>>

\* inclination_estimate from the average inclination
InclinationEstimate(avg_i) ==
    IF RatGT(avg_i, 60, 1) THEN 15
    ELSE IF RatGT(avg_i, 40, 1) THEN 10
    ELSE 5

\* mutant: the moderate count tested before the strong count
Confidence_ModerateFirst(strong_kozai_count, moderate_kozai_count) ==
    IF moderate_kozai_count > 2 THEN 60
    ELSE IF strong_kozai_count > 3 THEN 85
    ELSE IF strong_kozai_count > 1 THEN 70
    ELSE 40

\* overall_confidence from the counts of strong and moderate candidates
Confidence(strong_kozai_count, moderate_kozai_count) ==
    IF strong_kozai_count > 3 THEN 85
    ELSE IF strong_kozai_count > 1 THEN 70
    ELSE IF moderate_kozai_count > 2 THEN 60
    ELSE 40

\* mutant: Planet Nine gated on the distance alone
PerturberCandidates_DistanceOnly(distance_max, mass_max) ==
    (IF RatGT(distance_max, 200, 1)
        THEN <<"Planet Nine (hypothetical)">> ELSE <<>>)
    \o (IF RatGT(distance_max, 500, 1)
        THEN <<"Distant stellar companion">> ELSE <<>>)
    \o (IF RatLT(distance_max, 100, 1)
        THEN <<"Neptune (for comparison)">> ELSE <<>>)

\* the names appended to perturber.candidates by one call
PerturberCandidates(distance_max, mass_max) ==
    (IF RatGT(distance_max, 200, 1) /\ mass_max > 50
        THEN <<"Planet Nine (hypothetical)">> ELSE <<>>)
    \o (IF RatGT(distance_max, 500, 1)
        THEN <<"Distant stellar companion">> ELSE <<>>)
    \o (IF RatLT(distance_max, 100, 1)
        THEN <<"Neptune (for comparison)">> ELSE <<>>)

\* the body of _estimate_perturber_parameters past its guard: every field
\* but eccentricity_estimate is assigned and the names are appended to the
\* list the object already holds.
EstimateFrom(perturber, stats) ==
    LET distance == DistanceRange(stats.avg_a)
        mass == MassRange(stats.avg_kozai_param)
    IN  [distance_min |-> distance[1],
         distance_max |-> distance[2],
         mass_min |-> mass[1],
         mass_max |-> mass[2],
         inclination_estimate |-> InclinationEstimate(stats.avg_i),
         eccentricity_estimate |-> perturber.eccentricity_estimate,
         overall_confidence |->
             Confidence(stats.strong_kozai_count, stats.moderate_kozai_count),
         candidates |-> perturber.candidates
                        \o PerturberCandidates(distance[2], mass[2])]

\* mutant: the early return on an empty candidate list is missing
_estimate_perturber_parameters_NoGuard(perturber, stats, cands) ==
    EstimateFrom(perturber, stats)

\* _estimate_perturber_parameters: `if not self.kozai_candidates: return`
_estimate_perturber_parameters(perturber, stats, cands) ==
    IF cands = <<>> THEN perturber ELSE EstimateFrom(perturber, stats)

\* candidates_raw of analyze
CandidatesRaw(objs) == SelectSeq(objs, IsKozaiCandidate)

\* The records of candidates_raw the loop of analyze gets through before
\* calculate_kozai_parameter raises: all of them when none raises.
RECURSIVE ScoredPrefix(_)
ScoredPrefix(raw) ==
    IF raw = <<>> \/ SqrtDomainError(Head(raw)) THEN <<>>
    ELSE <<Head(raw)>> \o ScoredPrefix(Tail(raw))

\* the candidate list after the loop: the new candidates are appended to
\* the list the analyzer already holds (it is not cleared)
AppendCandidates(held, raw) ==
    held \o [k \in 1..Len(raw) |-> KozaiCandidate(raw[k])]

Kozai_Call(op) ==
    /\ script = "kozai"
    /\ error = "none"
    /\ calls < MaxCalls
    /\ calls' = calls + 1
    /\ last_op' = op
    /\ UNCHANGED <<script, csv_file, etno_vars, comp_vars>>

\* load_data: each row is parsed inside try/except (ValueError, KeyError);
\* a row that fails is reported and skipped.
Kozai_load_data ==
    /\ Kozai_Call("load_data")
    /\ objects' = objects \o KozaiObjs(SelectSeq(csv_file, Parses))
    /\ UNCHANGED <<kozai_candidates, statistics, perturber_params,
                   kozai_result, error>>

\* analyze: filter, score each candidate, sort, statistics, perturber.
\* A candidate with e > 1 raises ValueError out of the loop: the candidates
\* scored before it stay appended, nothing after the loop runs.
Kozai_analyze ==
    /\ Kozai_Call("analyze")
    /\ LET candidates_raw == CandidatesRaw(objects)
           scored == ScoredPrefix(candidates_raw)
           appended == AppendCandidates(kozai_candidates, scored)
           sorted == SortDesc(appended, "kozai_evidence_score")
           stats == _calculate_statistics(statistics, sorted)
       IN  IF scored # candidates_raw
           THEN /\ kozai_candidates' = appended
                /\ error' = "ValueError"
                /\ UNCHANGED <<statistics, perturber_params>>
           ELSE /\ kozai_candidates' = sorted
                /\ statistics' = stats
                /\ perturber_params' =
                       _estimate_perturber_parameters(perturber_params, stats, sorted)
                /\ error' = "none"
    /\ UNCHANGED <<objects, kozai_result>>

Kozai_Next ==
    \/ Kozai_load_data
    \/ Kozai_analyze

-----------------------------------------------------------------------------
(* The run *)

Scripts == {"etno", "comprehensive", "kozai"}

Init ==
    /\ script \in Scripts
    /\ csv_file \in Files
    /\ calls = 0
    /\ last_op = "none"
    /\ error = "none"
    /\ all_objects = <<>>
    /\ extreme_objects = <<>>
    /\ high_a_objects = <<>>
    /\ high_q_objects = <<>>
    /\ etno_result = NoResult
    /\ comp_objects = <<>>
    /\ comp_report = NoReport
    /\ objects = <<>>
    /\ kozai_candidates = <<>>
    /\ statistics = KozaiStatistics
    /\ perturber_params = PerturberParameters
    /\ kozai_result = NoResult

Next ==
    \/ ETNO_Next
    \/ Comp_Next
    \/ Kozai_Next

Spec == Init /\ [][Next]_vars

-----------------------------------------------------------------------------
(* The functions of the analyzers applied by a caller *)

\* A caller other than main() builds a KozaiLidovAnalyzer and applies its
\* functions itself: the per-record functions to records of its own
\* ("record_functions"), or the two summary functions to a candidate list it
\* has put in kozai_candidates ("summary_functions"); or it builds an
\* ETNOAnalyzer and applies calculate_statistics to a list of KBO records
\* of its own that it has put in extreme_objects ("etno_functions").

\* Longest candidate or record list a caller builds.
MaxCands == 4

\* The records the per-record functions are applied to: e in [0, 1),
\* i in [0, 180] degrees, aphelion from 0 up.
FnRecords ==
    {[name |-> "R", a |-> 100, e |-> e, i |-> i, q |-> 40, ad |-> ad,
      omega |-> 0, w |-> 0] :
        e \in {0, 51, 80, 99}, i \in {0, 35, 60, 90, 120, 180},
        ad \in {0, 250, 600}}

\* KozaiCandidate(name=..., a=..., e=..., i=..., kozai_parameter=...,
\* kozai_evidence_score=...), every other field at a fixed value
Cand(name, a, e, i, kozai_parameter, kozai_evidence_score) ==
    [name |-> name, a |-> a, e |-> e, i |-> i,
     q |-> 0, ad |-> 0, omega |-> 0, w |-> 0,
     kozai_parameter |-> kozai_parameter,
     h_z_component |-> kozai_parameter,
     apsidal_precession |-> 0, nodal_precession |-> 0,
     omega_circulation_indicator |-> 0,
     estimated_kozai_period |-> 0,
     resonance_strength |-> 0,
     kozai_evidence_score |-> kozai_evidence_score]

\* The candidates a list is made of: a strong one with Kozai parameter
\* 0.65 (S); one with score exactly 0.7, Kozai parameter exactly 0.6 and
\* inclination exactly 60 (T); one with score exactly 0.5 and inclination
\* exactly 40 (M); a moderate one close to the Sun (P).
CandS == Cand("S", 300, 70, 70, 6500, 80000)
CandT == Cand("T", 100, 60, 60, 6000, 70000)
CandM == Cand("M",  40, 55, 40, 5000, 50000)
CandP == Cand("P",  10, 60, 30, 2000, 60000)

FnCandidates == {CandS, CandT, CandM, CandP}

Fn_Call(mode, op) ==
    /\ script = mode
    /\ error = "none"
    /\ calls < MaxCalls
    /\ calls' = calls + 1
    /\ last_op' = op
    /\ UNCHANGED <<script, csv_file, etno_vars, comp_vars>>

\* The per-record functions evaluated on one record and gathered in a
\* KozaiCandidate, as the body of the loop of analyze does.
Fn_score_record ==
    /\ Fn_Call("record_functions", "score_record")
    /\ \E obj \in FnRecords :
          kozai_result' = [call |-> "score_record", arg |-> obj,
                           ret |-> KozaiCandidate(obj)]
    /\ UNCHANGED <<objects, kozai_candidates, statistics, perturber_params,
                   error>>

\* The records calculate_resonance_strength is applied to on its own: those
\* above and records with e > 1, which it accepts (only
\* calculate_kozai_parameter raises on them).
FnResonanceRecords ==
    FnRecords \cup
    {[name |-> "H", a |-> 100, e |-> 120, i |-> i, q |-> 40, ad |-> ad,
      omega |-> 0, w |-> 0] : i \in {35, 60, 120}, ad \in {250, 600}}

Fn_calculate_resonance_strength ==
    /\ Fn_Call("record_functions", "calculate_resonance_strength")
    /\ \E obj \in FnResonanceRecords :
          kozai_result' = [call |-> "calculate_resonance_strength", arg |-> obj,
                           ret |-> calculate_resonance_strength(obj)]
    /\ UNCHANGED <<objects, kozai_candidates, statistics, perturber_params,
                   error>>

\* KBO(name=..., a=..., q=..., ad=..., ...) built by a caller, with a
\* semi-major axis of two decimals: a, q and ad are in hundredths of an AU
\* here (a = 25070 is 250.70 AU), the other fields in the units of the
\* header.
KBOAt(name, a) ==
    [name |-> name, a |-> a, e |-> 80, i |-> 20, q |-> 4000,
     ad |-> 2 * a - 4000, period |-> 5000, omega_node |-> 100,
     omega_arg |-> 20, pert_strength |-> 50, distant_flag |-> 1]

KboU == KBOAt("U", 25070)
KboV == KBOAt("V", 25030)
KboW == KBOAt("W", 32000)
KboY == KBOAt("Y", 40025)

FnKBOs == {KboU, KboV, KboW, KboY}

\* ETNOAnalyzer.calculate_statistics applied to the list the caller has
\* put in extreme_objects
Fn_calculate_statistics ==
    /\ script = "etno_functions"
    /\ error = "none"
    /\ calls < MaxCalls
    /\ calls' = calls + 1
    /\ last_op' = "calculate_statistics"
    /\ etno_result' =
          [call |-> "calculate_statistics", arg |-> extreme_objects,
           ret |-> calculate_statistics_of_decimals(extreme_objects)]
    /\ UNCHANGED <<script, csv_file, error, all_objects, extreme_objects,
                   high_a_objects, high_q_objects, comp_vars, kozai_vars>>

Fn__calculate_statistics ==
    /\ Fn_Call("summary_functions", "_calculate_statistics")
    /\ statistics' = _calculate_statistics(statistics, kozai_candidates)
    /\ UNCHANGED <<objects, kozai_candidates, perturber_params, kozai_result,
                   error>>

Fn__estimate_perturber_parameters ==
    /\ Fn_Call("summary_functions", "_estimate_perturber_parameters")
    /\ perturber_params' =
          _estimate_perturber_parameters(perturber_params, statistics,
                                         kozai_candidates)
    /\ UNCHANGED <<objects, kozai_candidates, statistics, kozai_result,
                   error>>

FnInit ==
    /\ script \in {"record_functions", "summary_functions", "etno_functions"}
    /\ csv_file = <<>>
    /\ calls = 0
    /\ last_op = "none"
    /\ error = "none"
    /\ all_objects = <<>>
    /\ extreme_objects \in
          IF script = "etno_functions"
          THEN SeqsUpTo(FnKBOs, MaxCands) ELSE {<<>>}
    /\ high_a_objects = <<>>
    /\ high_q_objects = <<>>
    /\ etno_result = NoResult
    /\ comp_objects = <<>>
    /\ comp_report = NoReport
    /\ objects = <<>>
    /\ kozai_candidates \in
          IF script = "summary_functions"
          THEN SeqsUpTo(FnCandidates, MaxCands) ELSE {<<>>}
    /\ statistics = KozaiStatistics
    /\ perturber_params = PerturberParameters
    /\ kozai_result = NoResult

FnNext ==
    \/ Fn_score_record
    \/ Fn_calculate_resonance_strength
    \/ Fn_calculate_statistics
    \/ Fn__calculate_statistics
    \/ Fn__estimate_perturber_parameters

FnSpec == FnInit /\ [][FnNext]_vars

-----------------------------------------------------------------------------
(* Properties *)

\* s is a subsequence of t: s is t with some elements left out, order kept.
RECURSIVE IsSubsequence(_, _)
IsSubsequence(s, t) ==
    IF s = <<>> THEN TRUE
    ELSE IF t = <<>> THEN FALSE
    ELSE IF Head(s) = Head(t) THEN IsSubsequence(Tail(s), Tail(t))
    ELSE IsSubsequence(s, Tail(t))

Range(s) == {s[k] : k \in 1..Len(s)}

\* number of elements of s equal to x
Occurrences(s, x) == Cardinality({k \in 1..Len(s) : s[k] = x})

\* the orbital elements a KozaiCandidate carries over from its record
ElementsOf(c) ==
    [name |-> c.name, a |-> c.a, e |-> c.e, i |-> c.i, q |-> c.q,
     ad |-> c.ad, omega |-> c.omega, w |-> c.w]

CandidateElements(cands) == [k \in 1..Len(cands) |-> ElementsOf(cands[k])]

\* C1: after filter_extreme_objects a loaded record is in extreme_objects
\* exactly when a > 250 and q > 30, both strict (a record with a = 250 or
\* q = 30 is left out); the same holds of the comprehensive report's
\* extreme_core list.
C1_ExtremeIffStrict ==
    /\ (script = "etno" /\ last_op = "filter_extreme_objects") =>
          /\ Range(extreme_objects) \subseteq Range(all_objects)
          /\ \A obj \in Range(all_objects) :
                (obj \in Range(extreme_objects)) <=> (obj.a > 250 /\ obj.q > 30)
    /\ (script = "comprehensive" /\ last_op = "generate_comprehensive_report"
        /\ error = "none") =>
          /\ Range(comp_report.extreme_core) \subseteq Range(comp_objects)
          /\ \A obj \in Range(comp_objects) :
                (obj \in Range(comp_report.extreme_core))
                    <=> (obj.a > 250 /\ obj.q > 30)

\* C1 witness: the filter has run on a list holding a record with a = 250
\* exactly and q > 30, and a record it selected.
C1_Witness ==
    /\ script = "etno"
    /\ last_op = "filter_extreme_objects"
    /\ \E obj \in Range(all_objects) : obj.a = 250 /\ obj.q > 30
    /\ \E obj \in Range(all_objects) : obj.a > 250 /\ obj.q = 30
    /\ extreme_objects # <<>>

\* C2 (as claimed): each analyze call adds exactly one KozaiCandidate for
\* every loaded record with e > 0.5, i > 30, a > 50 and none for any other
\* record.
C2_OneCandidatePerQualifyingRecord ==
    [][(script = "kozai" /\ last_op' = "analyze" /\ calls' = calls + 1) =>
          \A obj \in Range(objects) :
              Occurrences(CandidateElements(kozai_candidates'), obj)
                  - Occurrences(CandidateElements(kozai_candidates), obj)
              = IF obj.e > 50 /\ obj.i > 30 /\ obj.a > 50
                THEN Occurrences(objects, obj) ELSE 0]_vars

\* C3: in every state of an ETNOAnalyzer, extreme_objects is a subset of
\* high_a_objects and of high_q_objects, and is exactly their intersection.
C3_ExtremeIsIntersection ==
    script = "etno" =>
        /\ Range(extreme_objects) \subseteq Range(high_a_objects)
        /\ Range(extreme_objects) \subseteq Range(high_q_objects)
        /\ Range(extreme_objects)
               = Range(high_a_objects) \cap Range(high_q_objects)
        /\ LET InHighQ(obj) == obj \in Range(high_q_objects)
           IN  extreme_objects = SelectSeq(high_a_objects, InHighQ)

\* C3 witness: the three lists are pairwise different, and a later
\* load_data has made all_objects longer than when they were computed.
C3_Witness ==
    /\ script = "etno"
    /\ last_op = "load_data"
    /\ extreme_objects # <<>>
    /\ Len(high_a_objects) > Len(extreme_objects)
    /\ Len(high_q_objects) > Len(extreme_objects)

\* C4 (as claimed): generate_comprehensive_report completes without an
\* error when no loaded record has a > 250 or none has q > 30.
C4_ReportSafeOnEmptySubset ==
    (/\ script = "comprehensive"
     /\ last_op = "generate_comprehensive_report"
     /\ \/ \A obj \in Range(comp_objects) : ~(obj.a > 250)
        \/ \A obj \in Range(comp_objects) : ~(obj.q > 30))
    => (error = "none" /\ comp_report.returned)

AllStatisticsZero(stats) ==
    /\ stats.count = 0
    /\ stats.strong_kozai_count = 0 /\ stats.moderate_kozai_count = 0
    /\ stats.avg_a = Zero /\ stats.avg_e = Zero /\ stats.avg_i = Zero
    /\ stats.avg_kozai_param = Zero
    /\ stats.e_min = 0 /\ stats.e_max = 0
    /\ stats.e_mean = Zero /\ stats.e_std_dev = Zero
    /\ stats.i_min = 0 /\ stats.i_max = 0
    /\ stats.i_mean = Zero /\ stats.i_std_dev = Zero

NoRecordQualifies ==
    \A obj \in Range(objects) : ~(obj.e > 50 /\ obj.i > 30 /\ obj.a > 50)

\* the Kozai half of C5
C5_KozaiZeroed ==
    (script = "kozai" /\ last_op = "analyze" /\ NoRecordQualifies)
        => (error = "none" /\ AllStatisticsZero(statistics))

CalledStatisticsOnEmpty ==
    /\ script = "etno"
    /\ last_op = "calculate_statistics"
    /\ etno_result.call = "calculate_statistics"
    /\ etno_result.arg = <<>>

PerturberZeroButEccentricity(p) ==
    /\ p.distance_min = Zero /\ p.distance_max = Zero
    /\ p.mass_min = 0 /\ p.mass_max = 0
    /\ p.inclination_estimate = 0
    /\ p.overall_confidence = 0
    /\ p.candidates = <<>>

\* C6 (as claimed): when analyze runs with no qualifying record every field
\* of the perturber estimate is zero, eccentricity_estimate included, the
\* candidates list is empty and no error is raised.
C6_PerturberAllZero ==
    (script = "kozai" /\ last_op = "analyze" /\ NoRecordQualifies) =>
        /\ error = "none"
        /\ PerturberZeroButEccentricity(perturber_params)
        /\ perturber_params.eccentricity_estimate = 0

\* C6 (amended): when analyze runs with no qualifying record, distance_min,
\* distance_max, mass_min, mass_max, inclination_estimate and
\* overall_confidence are 0 and candidates is empty, eccentricity_estimate
\* is its default 0.3, and no error is raised.
C6_PerturberDefaults ==
    (script = "kozai" /\ last_op = "analyze" /\ NoRecordQualifies) =>
        /\ error = "none"
        /\ PerturberZeroButEccentricity(perturber_params)
        /\ perturber_params.eccentricity_estimate = 30

\* C6 witness: analyze has run on loaded records none of which qualifies.
C6_Witness ==
    /\ script = "kozai"
    /\ last_op = "analyze"
    /\ objects # <<>>
    /\ NoRecordQualifies

\* C7 (as claimed): when a qualifying record has e >= 1, analyze is not
\* aborted: that record alone is left out of the candidates, every other
\* qualifying record is scored, and the statistics are computed.
C7_DomainErrorRejectsOneRecord ==
    (/\ script = "kozai"
     /\ last_op = "analyze"
     /\ \E obj \in Range(objects) :
            obj.e >= 100 /\ obj.e > 50 /\ obj.i > 30 /\ obj.a > 50)
    => /\ error = "none"
       /\ \A c \in Range(kozai_candidates) : c.e < 100
       /\ \A obj \in Range(objects) :
              (obj.e > 50 /\ obj.e < 100 /\ obj.i > 30 /\ obj.a > 50)
                  => obj \in Range(CandidateElements(kozai_candidates))
       /\ statistics.count = Len(kozai_candidates)

\* C8 (as claimed): the first load_data of each script skips the rows with
\* an unparseable number and loads exactly the well-formed rows, in file
\* order, without aborting.
C8_LoaderSkipsMalformedRows ==
    (calls = 1 /\ last_op \in {"load_data", "__init__"}) =>
        /\ error = "none"
        /\ script = "etno" =>
               all_objects = KBOs(SelectSeq(csv_file, Parses))
        /\ script = "comprehensive" =>
               comp_objects = CompObjs(SelectSeq(csv_file, Parses))
        /\ script = "kozai" =>
               objects = KozaiObjs(SelectSeq(csv_file, Parses))

\* C9 (as claimed): a second analyze on the same loaded objects leaves
\* kozai_candidates, statistics and perturber_params as the first left
\* them.
C9_AnalyzeTwiceSameResult ==
    [][(/\ script = "kozai"
        /\ last_op = "analyze"
        /\ last_op' = "analyze"
        /\ calls' = calls + 1) =>
          /\ kozai_candidates' = kozai_candidates
          /\ statistics' = statistics
          /\ perturber_params' = perturber_params]_vars

\* C10: filter_extreme_objects leaves all_objects unchanged and analyze
\* leaves objects unchanged; extreme_objects, high_a_objects,
\* high_q_objects and candidates_raw are subsequences of the input, in its
\* order; generate_report's sorting does not reorder extreme_objects.
C10_FilteringPreservesInput ==
    [][/\ (script = "etno" /\ last_op' = "filter_extreme_objects") =>
              /\ all_objects' = all_objects
              /\ IsSubsequence(extreme_objects', all_objects)
              /\ IsSubsequence(high_a_objects', all_objects)
              /\ IsSubsequence(high_q_objects', all_objects)
       /\ (script = "etno" /\ last_op' = "generate_report") =>
              /\ all_objects' = all_objects
              /\ extreme_objects' = extreme_objects
       /\ (script = "kozai" /\ last_op' = "analyze") =>
              /\ objects' = objects
              /\ IsSubsequence(CandidatesRaw(objects), objects)
              /\ error' = "none" =>
                    \A obj \in Range(CandidatesRaw(objects)) :
                        obj \in Range(CandidateElements(kozai_candidates'))
      ]_vars

\* C10 witness: generate_report has listed, in descending a, extreme
\* objects that the analyzer holds in another order.
C10_Witness ==
    /\ script = "etno"
    /\ last_op = "generate_report"
    /\ Len(extreme_objects) >= 2
    /\ Len(all_objects) > Len(extreme_objects)
    /\ etno_result.ret.listing # extreme_objects

\* C11: applying the extreme predicate (a > 250 and q > 30) to the list
\* filter_extreme_objects has produced returns the identical list, and a
\* call of filter_extreme_objects that directly follows another leaves
\* extreme_objects, high_a_objects and high_q_objects as they were.
C11_FilterIdempotent ==
    [][script = "etno" =>
          /\ last_op' = "filter_extreme_objects" =>
                LET Extreme(obj) == obj.a > 250 /\ obj.q > 30
                IN  SelectSeq(extreme_objects', Extreme) = extreme_objects'
          /\ (last_op = "filter_extreme_objects"
              /\ last_op' = "filter_extreme_objects") =>
                /\ extreme_objects' = extreme_objects
                /\ high_a_objects' = high_a_objects
                /\ high_q_objects' = high_q_objects]_vars

\* C11 witness: load_data, filter_extreme_objects, filter_extreme_objects
\* on a file with an extreme record and a record that is not extreme.
C11_Witness ==
    /\ script = "etno"
    /\ calls = 3
    /\ last_op = "filter_extreme_objects"
    /\ etno_result = NoResult
    /\ Len(all_objects) = Len(csv_file)
    /\ extreme_objects # <<>>
    /\ Len(extreme_objects) < Len(high_a_objects)
    /\ Len(extreme_objects) < Len(high_q_objects)

\* C12: after _estimate_perturber_parameters on a non-empty candidate list
\* overall_confidence is 0.85 when the strong count exceeds 3, otherwise
\* 0.70 when it exceeds 1, otherwise 0.60 when the moderate count exceeds 2,
\* otherwise 0.40; the comparisons are strict and no other value occurs.
C12_ConfidenceTiers ==
    (last_op = "_estimate_perturber_parameters" /\ kozai_candidates # <<>>) =>
        LET strong == statistics.strong_kozai_count
            moderate == statistics.moderate_kozai_count
            confidence == perturber_params.overall_confidence
        IN  /\ confidence \in {85, 70, 60, 40}
            /\ (strong > 3) => (confidence = 85)
            /\ (strong <= 3 /\ strong > 1) => (confidence = 70)
            /\ (strong <= 1 /\ moderate > 2) => (confidence = 60)
            /\ (strong <= 1 /\ moderate <= 2) => (confidence = 40)

\* C12 witness: exactly three strong candidates and more than two moderate
\* ones: the second tier, neither the first nor the third.
C12_Witness ==
    /\ last_op = "_estimate_perturber_parameters"
    /\ statistics.strong_kozai_count = 3
    /\ statistics.moderate_kozai_count > 3
    /\ perturber_params.overall_confidence = 70

\* C13: after _estimate_perturber_parameters on a non-empty candidate list
\* the mass range is [6.0, 10.0] when the mean Kozai parameter exceeds 0.6,
\* otherwise [4.0, 7.0] when it exceeds 0.4, otherwise [1.5, 4.0]; the
\* inclination estimate is 15 when the mean inclination exceeds 60,
\* otherwise 10 when it exceeds 40, otherwise 5; a mean equal to a threshold
\* is in the lower tier, and mass_min < mass_max.
C13_MassAndInclinationTiers ==
    (last_op = "_estimate_perturber_parameters" /\ kozai_candidates # <<>>) =>
        LET k == statistics.avg_kozai_param
            m == statistics.avg_i
            mass == <<perturber_params.mass_min, perturber_params.mass_max>>
            inclination == perturber_params.inclination_estimate
        IN  /\ (k.num > 6000 * k.den) => (mass = <<60, 100>>)
            /\ (k.num <= 6000 * k.den /\ k.num > 4000 * k.den)
                   => (mass = <<40, 70>>)
            /\ (k.num <= 4000 * k.den) => (mass = <<15, 40>>)
            /\ (m.num > 60 * m.den) => (inclination = 15)
            /\ (m.num <= 60 * m.den /\ m.num > 40 * m.den)
                   => (inclination = 10)
            /\ (m.num <= 40 * m.den) => (inclination = 5)
            /\ perturber_params.mass_min < perturber_params.mass_max

\* C13 witness: the mean Kozai parameter is exactly 0.6 and the mean
\* inclination exactly 60, and the middle tiers were chosen.
C13_Witness ==
    /\ last_op = "_estimate_perturber_parameters"
    /\ statistics.count > 1
    /\ statistics.avg_kozai_param = [num |-> 6000, den |-> 1]
    /\ statistics.avg_i = [num |-> 60, den |-> 1]
    /\ perturber_params.mass_min = 40 /\ perturber_params.mass_max = 70
    /\ perturber_params.inclination_estimate = 10

\* C14: the first _estimate_perturber_parameters on a non-empty candidate
\* list leaves "Planet Nine (hypothetical)" in candidates exactly when
\* distance_max > 200 and mass_max > 5, "Distant stellar companion" exactly
\* when distance_max > 500 and "Neptune (for comparison)" exactly when
\* distance_max < 100, each at most once; with mean Kozai parameter 0.65
\* and strong count 4 the mass range is [6.0, 10.0], the confidence 0.85
\* and Planet Nine is present when distance_max > 200.
C14_PerturberCandidateNames ==
    [][(/\ last_op' = "_estimate_perturber_parameters"
        /\ calls' = calls + 1
        /\ perturber_params = PerturberParameters
        /\ kozai_candidates # <<>>) =>
          LET p == perturber_params'
              far(n) == p.distance_max.num > n * p.distance_max.den
              near(n) == p.distance_max.num < n * p.distance_max.den
              has(name) == name \in Range(p.candidates)
          IN  /\ has("Planet Nine (hypothetical)")
                    <=> (far(200) /\ p.mass_max > 50)
              /\ has("Distant stellar companion") <=> far(500)
              /\ has("Neptune (for comparison)") <=> near(100)
              /\ \A name \in Range(p.candidates) :
                    Occurrences(p.candidates, name) = 1
              /\ (/\ statistics.avg_kozai_param = [num |-> 6500, den |-> 1]
                  /\ statistics.strong_kozai_count = 4) =>
                    /\ p.mass_min = 60 /\ p.mass_max = 100
                    /\ p.overall_confidence = 85
                    /\ far(200) => has("Planet Nine (hypothetical)")]_vars

\* C14 witness: the example of the claim, mean Kozai parameter 0.65 and
\* four strong candidates, after one call.
C14_Witness ==
    /\ last_op = "_estimate_perturber_parameters"
    /\ statistics.avg_kozai_param = [num |-> 6500, den |-> 1]
    /\ statistics.strong_kozai_count = 4
    /\ perturber_params.overall_confidence = 85
    /\ Occurrences(perturber_params.candidates,
                   "Planet Nine (hypothetical)") = 1

\* C15: after analyze on a non-empty candidate list distance_min is 4.5
\* times and distance_max 5.5 times the mean semi-major axis of the
\* candidates, and distance_min <= distance_max.
C15_DistanceRange ==
    (/\ script = "kozai"
     /\ last_op = "analyze"
     /\ error = "none"
     /\ kozai_candidates # <<>>) =>
        LET N == Len(kozai_candidates)
            sum_a == SumSeq(Field(kozai_candidates, "a"))
            lo == perturber_params.distance_min
            hi == perturber_params.distance_max
        IN  /\ lo.num * 2 * N = 9 * sum_a * lo.den
            /\ hi.num * 2 * N = 11 * sum_a * hi.den
            /\ lo.num * hi.den <= hi.num * lo.den

\* C15 witness: analyze has produced candidates of different semi-major
\* axes, so the mean is the semi-major axis of none of them.
C15_Witness ==
    /\ script = "kozai"
    /\ last_op = "analyze"
    /\ error = "none"
    /\ Len(kozai_candidates) >= 2
    /\ \A c \in Range(kozai_candidates) :
           c.a * statistics.avg_a.den # statistics.avg_a.num
    /\ perturber_params.distance_min # perturber_params.distance_max

\* the spec's perihelion-alignment predicate
SpecAligned(obj) ==
    \/ obj.omega_arg < 45
    \/ obj.omega_arg > 315
    \/ (135 < obj.omega_arg /\ obj.omega_arg < 225)

\* C16 (as claimed): perihelion_aligned_count returned by
\* analyze_orbital_anomalies is the number of records of the subset with
\* w < 45 or w > 315 or 135 < w < 225.
C16_AlignedCountIncludes180 ==
    (/\ script = "etno"
     /\ etno_result.call = "analyze_orbital_anomalies"
     /\ etno_result.arg # <<>>) =>
        etno_result.ret.perihelion_aligned_count
            = Cardinality({k \in 1..Len(etno_result.arg) :
                               SpecAligned(etno_result.arg[k])})

\* s is in non-increasing order of the key f
NonIncreasing(s, f) ==
    \A k \in 1..(Len(s) - 1) : s[k][f] >= s[k + 1][f]

\* s is the stable descending sort of t on the key f: in non-increasing
\* order, and for every key value the elements carrying it are the same, in
\* the same order, in s and in t
IsStableSortDesc(s, t, f) ==
    /\ NonIncreasing(s, f)
    /\ Len(s) = Len(t)
    /\ \A v \in {t[k][f] : k \in 1..Len(t)} \cup {s[k][f] : k \in 1..Len(s)} :
          LET HasKey(x) == x[f] = v
          IN  SelectSeq(s, HasKey) = SelectSeq(t, HasKey)

\* the positions of record x in the loaded objects
Positions(x) == {k \in 1..Len(objects) : objects[k] = x}

\* C17 (as claimed): after analyze has completed kozai_candidates is in
\* non-increasing order of kozai_evidence_score and two candidates of equal
\* score are in the order in which their records were loaded; the report's
\* lists sorted by descending a, q or e are stable sorts.
C17_SortedAndStable ==
    /\ (script = "kozai" /\ last_op = "analyze" /\ error = "none") =>
          /\ NonIncreasing(kozai_candidates, "kozai_evidence_score")
          /\ \A j, k \in 1..Len(kozai_candidates) :
                (/\ j < k
                 /\ kozai_candidates[j].kozai_evidence_score
                        = kozai_candidates[k].kozai_evidence_score) =>
                   \E pj \in Positions(ElementsOf(kozai_candidates[j])),
                      pk \in Positions(ElementsOf(kozai_candidates[k])) :
                         pj <= pk
    /\ (/\ script = "comprehensive"
        /\ last_op = "generate_comprehensive_report"
        /\ comp_report.returned) =>
          LET HighA(obj) == obj.a > 250
              HighQ(obj) == obj.q > 30
          IN  /\ IsStableSortDesc(comp_report.high_a,
                                  SelectSeq(comp_objects, HighA), "a")
              /\ IsStableSortDesc(comp_report.high_q,
                                  SelectSeq(comp_objects, HighQ), "q")
              /\ IsStableSortDesc(comp_report.core_listing,
                                  comp_report.extreme_core, "a")

\* C18: after _calculate_statistics on a non-empty candidate list
\* strong_kozai_count is the number of candidates with score > 0.7 and
\* moderate_kozai_count the number with score > 0.5, both strict.
C18_StrongAndModerateCounts ==
    (last_op = "_calculate_statistics" /\ kozai_candidates # <<>>) =>
        /\ statistics.strong_kozai_count
              = Cardinality({k \in 1..Len(kozai_candidates) :
                    kozai_candidates[k].kozai_evidence_score > 70000})
        /\ statistics.moderate_kozai_count
              = Cardinality({k \in 1..Len(kozai_candidates) :
                    kozai_candidates[k].kozai_evidence_score > 50000})

\* C18 witness: a candidate with score exactly 0.7 and one with score
\* exactly 0.5 were counted with a strong one.
C18_Witness ==
    /\ last_op = "_calculate_statistics"
    /\ \E c \in Range(kozai_candidates) : c.kozai_evidence_score = 70000
    /\ \E c \in Range(kozai_candidates) : c.kozai_evidence_score = 50000
    /\ statistics.count = 3
    /\ statistics.strong_kozai_count = 1
    /\ statistics.moderate_kozai_count = 2

C20_EvidenceScore ==
    (kozai_result.call = "score_record") =>
        LET obj == kozai_result.arg
            c == kozai_result.ret
        IN  /\ c.kozai_evidence_score
                  = 4 * c.kozai_parameter
                    + 3 * (10000 - c.omega_circulation_indicator)
                    + c.resonance_strength
            /\ (/\ obj.e > 50 /\ obj.e < 100
                /\ obj.i > 30 /\ obj.a > 50 /\ obj.ad >= 0) =>
                   (c.kozai_evidence_score >= 0
                    /\ c.kozai_evidence_score <= 100000)

\* C20 witness: a qualifying record at the low corner (e just above 0.5,
\* i = 90, ad = 0), where only the libration component contributes.
C20_Witness ==
    /\ kozai_result.call = "score_record"
    /\ kozai_result.arg.e = 51
    /\ kozai_result.arg.i = 90
    /\ kozai_result.arg.ad = 0
    /\ kozai_result.ret.kozai_parameter = 0
    /\ kozai_result.ret.kozai_evidence_score > 0

\* C21 (as claimed): every standard deviation is the population form, and
\* is exactly 0 when the values are all equal: e_std_dev and i_std_dev of
\* the Kozai statistics after analyze, the omega and node clustering std of
\* analyze_orbital_anomalies.
C21_PopulationStdDevZeroOnEqual ==
    /\ (/\ script = "kozai"
        /\ last_op = "analyze"
        /\ error = "none"
        /\ kozai_candidates # <<>>) =>
           LET e_values == Field(kozai_candidates, "e")
               i_values == Field(kozai_candidates, "i")
           IN  /\ AllEqual(e_values) => statistics.e_std_dev = Zero
               /\ ~AllEqual(e_values) => statistics.e_std_dev = StdDev(e_values)
               /\ AllEqual(i_values) => statistics.i_std_dev = Zero
               /\ ~AllEqual(i_values) => statistics.i_std_dev = StdDev(i_values)
    /\ (/\ script = "etno"
        /\ etno_result.call = "analyze_orbital_anomalies"
        /\ etno_result.arg # <<>>) =>
           LET omega_values == Field(etno_result.arg, "omega_arg")
               node_values == Field(etno_result.arg, "omega_node")
               ret == etno_result.ret
           IN  /\ AllEqual(omega_values) => ret.omega_clustering_std = Zero
               /\ ~AllEqual(omega_values) =>
                      ret.omega_clustering_std = StdDev(omega_values)
               /\ AllEqual(node_values) => ret.node_clustering_std = Zero
               /\ ~AllEqual(node_values) =>
                      ret.node_clustering_std = StdDev(node_values)

\* the three factors of the resonance strength, scale 10000
EFactor(obj) == (obj.e - 50) * 200
IFactor(obj) ==
    LET d == Abs(Abs(Cos(obj.i)) - 5000)
    IN  IF 10000 - 2 * d > 0 THEN 10000 - 2 * d ELSE 0
AFactor(obj) == IF obj.ad * 20 < 10000 THEN obj.ad * 20 ELSE 10000

\* three times the plain average of the factors (the unit is 1/30000)
FactorSum(obj) == EFactor(obj) + IFactor(obj) + AFactor(obj)

MeanKozaiParameter ==
    Rat(SumSeq(Field(kozai_candidates, "kozai_parameter")),
        Len(kozai_candidates))

\* C23: every Kozai candidate has a > 50, so that after a completed analyze
\* with candidates avg_a > 50 and distance_max > 275; "Neptune (for
\* comparison)" is never among the perturber candidates, and "Planet Nine
\* (hypothetical)" is among them exactly when there are candidates and
\* their mean Kozai parameter exceeds 0.4.
C23_NeverNeptune ==
    script = "kozai" =>
        /\ \A k \in 1..Len(kozai_candidates) : kozai_candidates[k].a > 50
        /\ ~("Neptune (for comparison)" \in Range(perturber_params.candidates))
        /\ (last_op = "analyze" /\ error = "none") =>
              /\ kozai_candidates # <<>> =>
                    /\ RatGT(statistics.avg_a, 50, 1)
                    /\ RatGT(perturber_params.distance_max, 275, 1)
              /\ "Planet Nine (hypothetical)"
                      \in Range(perturber_params.candidates)
                    <=> /\ kozai_candidates # <<>>
                        /\ RatGT(MeanKozaiParameter, 4000, 1)

\* analyze has completed on a file holding a record with a <= 50 that
\* passes the other two criteria, and Planet Nine has been added
C23_Witness ==
    /\ script = "kozai"
    /\ last_op = "analyze"
    /\ error = "none"
    /\ \E k \in 1..Len(objects) :
          objects[k].a <= 50 /\ objects[k].e > 50 /\ objects[k].i > 30
    /\ "Planet Nine (hypothetical)" \in Range(perturber_params.candidates)

\* the statistics are those of the candidates held: analyze has completed,
\* or _calculate_statistics was the last function applied
StatisticsComputed ==
    \/ script = "kozai" /\ last_op = "analyze" /\ error = "none"
    \/ script = "summary_functions" /\ last_op = "_calculate_statistics"

\* the perturber parameters are those of the statistics held
PerturberEstimated ==
    \/ script = "kozai" /\ last_op = "analyze" /\ error = "none"
    \/ script = "summary_functions" /\ last_op = "_estimate_perturber_parameters"

\* C24: once the statistics are computed strong_kozai_count <=
\* moderate_kozai_count <= statistics.count and statistics.count is the
\* length of kozai_candidates; a confidence of 0.60 is estimated only from
\* strong_kozai_count <= 1 and moderate_kozai_count >= 3.
C24_CountOrdering ==
    /\ StatisticsComputed =>
          /\ statistics.strong_kozai_count <= statistics.moderate_kozai_count
          /\ statistics.moderate_kozai_count <= statistics.count
          /\ statistics.count = Len(kozai_candidates)
    /\ (/\ PerturberEstimated
        /\ kozai_candidates # <<>>
        /\ perturber_params.overall_confidence = 60) =>
          /\ statistics.strong_kozai_count <= 1
          /\ statistics.moderate_kozai_count >= 3

\* the 0.60 tier estimated from one strong candidate among three moderate
\* ones, the statistics being those of the candidates
C24_Witness ==
    /\ PerturberEstimated
    /\ statistics.count = Len(kozai_candidates)
    /\ statistics.strong_kozai_count = 1
    /\ statistics.moderate_kozai_count = 3
    /\ statistics.count > 3
    /\ perturber_params.overall_confidence = 60

\* the records of comp_objects with a > t, in file order
ThresholdPopulation(t) ==
    LET Above(obj) == obj.a > t
    IN  SelectSeq(comp_objects, Above)

\* g1, g2 and g3 partition the list pop: each keeps the order of pop, no
\* record is in two of them, and their sizes sum to n, the length of pop
PartitionOf(pop, n, g1, g2, g3) ==
    /\ n = Len(pop)
    /\ IsSubsequence(g1, pop) /\ IsSubsequence(g2, pop) /\ IsSubsequence(g3, pop)
    /\ Range(g1) \cap Range(g2) = {}
    /\ Range(g1) \cap Range(g3) = {}
    /\ Range(g2) \cap Range(g3) = {}
    /\ Len(g1) + Len(g2) + Len(g3) = n

\* C25: in a report that was produced, for each threshold a > 250, 200, 150
\* with a non-empty population, cluster_0 (w < 45 or w > 315), cluster_180
\* (135 < w < 225) and scattered partition the population, and so do the
\* perturbation groups high (> 0.6), medium (0.5 <= p <= 0.6) and low
\* (< 0.5).
C25_SweepsPartition ==
    (/\ script = "comprehensive"
     /\ last_op = "generate_comprehensive_report"
     /\ comp_report.returned) =>
        \A t \in {250, 200, 150} :
            LET pop == ThresholdPopulation(t)
                omega == comp_report.omega_sweep[t]
                pert == comp_report.pert_sweep[t]
            IN  pop # <<>> =>
                  /\ PartitionOf(pop, omega.n, omega.cluster_0,
                                 omega.cluster_180, omega.scattered)
                  /\ \A obj \in Range(omega.cluster_0) :
                        obj.arg < 45 \/ obj.arg > 315
                  /\ \A obj \in Range(omega.cluster_180) :
                        135 < obj.arg /\ obj.arg < 225
                  /\ PartitionOf(pop, pert.n, pert.high_pert, pert.med_pert,
                                 pert.low_pert)
                  /\ \A obj \in Range(pert.high_pert) : obj.pert_strength > 60
                  /\ \A obj \in Range(pert.med_pert) :
                        50 <= obj.pert_strength /\ obj.pert_strength <= 60
                  /\ \A obj \in Range(pert.low_pert) : obj.pert_strength < 50

\* a report whose a > 250 population has a record in each of the six
\* groups, one with w = 45 and one with perturbation strength 0.6
C25_Witness ==
    /\ script = "comprehensive"
    /\ last_op = "generate_comprehensive_report"
    /\ comp_report.returned
    /\ comp_report.omega_sweep[250].cluster_0 # <<>>
    /\ comp_report.omega_sweep[250].cluster_180 # <<>>
    /\ \E obj \in Range(comp_report.omega_sweep[250].scattered) : obj.arg = 45
    /\ comp_report.pert_sweep[250].high_pert # <<>>
    /\ \E obj \in Range(comp_report.pert_sweep[250].med_pert) :
          obj.pert_strength = 60
    /\ comp_report.pert_sweep[250].low_pert # <<>>

\* C26: on the same loaded records the filter of ETNOAnalyzer, section 1 of
\* the comprehensive report and the evidence dict of its section 7 select
\* the same extreme core, and the high_a and high_q counts of the evidence
\* dict are the lengths of high_a_objects and high_q_objects: the lists of
\* ETNOAnalyzer are what the comprehensive tests select from all_objects,
\* and the lists and counts of a report that was produced are what the
\* tests of ETNOAnalyzer select from the records of the report.
C26_ExtremeCoreAgrees ==
    /\ (script = "etno" /\ last_op = "filter_extreme_objects") =>
          /\ extreme_objects = SelectSeq(all_objects, CompIsExtremeCore)
          /\ Len(extreme_objects) = CompEvidence(all_objects).extreme_core
          /\ Len(high_a_objects) = CompEvidence(all_objects).high_a
          /\ Len(high_q_objects) = CompEvidence(all_objects).high_q
    /\ (/\ script = "comprehensive"
        /\ last_op = "generate_comprehensive_report"
        /\ comp_report.returned) =>
          /\ comp_report.extreme_core = SelectSeq(comp_objects, IsExtreme)
          /\ comp_report.evidence.extreme_core = Len(comp_report.extreme_core)
          /\ comp_report.evidence.high_a
                = Len(SelectSeq(comp_objects, IsHighA))
          /\ comp_report.evidence.high_q
                = Len(SelectSeq(comp_objects, IsHighQ))

\* a report on records that include one with a = 250 and one with q = 30,
\* whose extreme core is not empty and smaller than both single-criterion
\* populations
C26_Witness ==
    /\ script = "comprehensive"
    /\ last_op = "generate_comprehensive_report"
    /\ comp_report.returned
    /\ \E obj \in Range(comp_objects) : obj.a = 250 /\ obj.q > 30
    /\ \E obj \in Range(comp_objects) : obj.q = 30 /\ obj.a > 250
    /\ comp_report.extreme_core # <<>>
    /\ comp_report.evidence.extreme_core < comp_report.evidence.high_a
    /\ comp_report.evidence.extreme_core < comp_report.evidence.high_q

\* r <= n and n <= r for a rational r and an integer n
RatLE(r, n) == r.num <= n * r.den
RatGE(r, n) == r.num >= n * r.den

\* C27 (as claimed): for a non-empty list calculate_statistics returns as
\* a_median the element at index floor(N/2) (counted from 0) of the a
\* values in ascending order, and a_min <= a_median <= a_max and
\* a_min <= a_mean <= a_max.
C27_MedianAndMeanWithinRange ==
    (etno_result.call = "calculate_statistics" /\ etno_result.arg # <<>>) =>
        LET a_values == Field(etno_result.arg, "a")
            N == Len(a_values)
            ret == etno_result.ret
        IN  /\ ret.a_median = SortAsc(a_values)[(N \div 2) + 1]
            /\ ret.a_min <= ret.a_median
            /\ ret.a_median <= ret.a_max
            /\ RatGE(ret.a_mean, ret.a_min)
            /\ RatLE(ret.a_mean, ret.a_max)

====
